---------------------------- MODULE Spec2Model ----------------------------
(***************************************************************************)
(* buildscripts/multdef_symbol_check.py: scan a build directory for ".os"  *)
(* object files, run "ld --shared" on them, and report the multiply        *)
(* defined symbols named on the linker's standard error.                   *)
(*                                                                         *)
(* A Python str is a sequence of one-character strings, so that strip,     *)
(* split, partition, "in", endswith, path.join and the ordering of sorted  *)
(* are computed character by character, as the interpreter computes them.  *)
(* sys.argv[i] of the script is argv[i + 1] here (sequences start at 1).   *)
(***************************************************************************)
EXTENDS Integers, Sequences, FiniteSets

VARIABLES
    argv,         \* sys.argv: the program name followed by the arguments
    fs,           \* the file tree below the build directory
    ld,           \* what running the linker does in this environment
    pc,           \* the step main() is at
    build_dir,    \* main: build_dir
    build_files,  \* main: build_files
    invocations,  \* the argument lists handed to subprocess.Popen, in order
    output,       \* main: output
    multiples,    \* main: multiples
    uniq,         \* main: uniq (the list of a set: its order is not used)
    stdout,       \* the lines printed so far
    exit_status   \* <<>> while the process runs, <<s>> once it has exited with s

vars == <<argv, fs, ld, pc, build_dir, build_files, invocations, output,
          multiples, uniq, stdout, exit_status>>

----------------------------------------------------------------------------
(* Bounds of the model.                                                    *)

\* most command-line arguments after the program name
MaxArgs == 2
\* most files and directories below the build directory
MaxNodes == 3
\* most pieces (see Pieces) the linker's standard error is made of
MaxPieces == 5
\* the same, where the linker's exit status and standard output vary as well
MaxStatusPieces == 3

----------------------------------------------------------------------------
(* Python str operations.                                                  *)

\* the vertical tab, chr(11): the character itself stands between the quotes
VerticalTab == ""

\* ord(c) of the characters that occur in the model
Ord(c) ==
    CASE c = "\t" -> 9
      [] c = "\n" -> 10
      [] c = VerticalTab -> 11
      [] c = "\f" -> 12
      [] c = "\r" -> 13
      [] c = " " -> 32
      [] c = "-" -> 45
      [] c = "." -> 46
      [] c = "/" -> 47
      [] c = ":" -> 58
      [] c = "a" -> 97
      [] c = "b" -> 98
      [] c = "d" -> 100
      [] c = "e" -> 101
      [] c = "f" -> 102
      [] c = "h" -> 104
      [] c = "i" -> 105
      [] c = "l" -> 108
      [] c = "m" -> 109
      [] c = "n" -> 110
      [] c = "o" -> 111
      [] c = "p" -> 112
      [] c = "r" -> 114
      [] c = "s" -> 115
      [] c = "t" -> 116
      [] c = "u" -> 117
      [] c = "x" -> 120

\* the six characters str.strip() removes when called without an argument
Whitespace == {" ", "\t", "\n", "\r", VerticalTab, "\f"}

SetMin(S) == CHOOSE x \in S : \A y \in S : x <= y
SetMax(S) == CHOOSE x \in S : \A y \in S : y <= x

\* sub in s
Contains(s, sub) ==
    \E i \in 0..(Len(s) - Len(sub)) : SubSeq(s, i + 1, i + Len(sub)) = sub

\* s.endswith(suffix)
EndsWith(s, suffix) ==
    /\ Len(s) >= Len(suffix)
    /\ SubSeq(s, Len(s) - Len(suffix) + 1, Len(s)) = suffix

\* s.strip()
Strip(s) ==
    LET keep == {i \in 1..Len(s) : s[i] \notin Whitespace}
    IN  IF keep = {} THEN <<>> ELSE SubSeq(s, SetMin(keep), SetMax(keep))

\* s.split(c) for a one-character separator c
RECURSIVE Split(_, _)
Split(s, c) ==
    LET at == {i \in 1..Len(s) : s[i] = c}
    IN  IF at = {} THEN <<s>>
        ELSE <<SubSeq(s, 1, SetMin(at) - 1)>>
                 \o Split(SubSeq(s, SetMin(at) + 1, Len(s)), c)

\* Partition splitting at the last c, with the whole of s as the tail when
\* s holds no c (str.rpartition)
PartitionLast(s, c) ==
    LET at == {i \in 1..Len(s) : s[i] = c}
    IN  IF at = {} THEN <<<<>>, <<>>, s>>
        ELSE <<SubSeq(s, 1, SetMax(at) - 1), <<c>>, SubSeq(s, SetMax(at) + 1, Len(s))>>
\* Partition splitting at the first whitespace character, whatever c is
PartitionAnyWhitespace(s, c) ==
    LET at == {i \in 1..Len(s) : s[i] \in Whitespace}
    IN  IF at = {} THEN <<s, <<>>, <<>>>>
        ELSE <<SubSeq(s, 1, SetMin(at) - 1), <<s[SetMin(at)]>>,
               SubSeq(s, SetMin(at) + 1, Len(s))>>
\* s.partition(c) for a one-character separator c: (head, sep, tail)
Partition(s, c) ==
    LET at == {i \in 1..Len(s) : s[i] = c}
    IN  IF at = {} THEN <<s, <<>>, <<>>>>
        ELSE <<SubSeq(s, 1, SetMin(at) - 1), <<c>>, SubSeq(s, SetMin(at) + 1, Len(s))>>

\* a < b for two str: byte by byte, a proper prefix first
RECURSIVE StrLess(_, _)
StrLess(a, b) ==
    IF b = <<>> THEN FALSE
    ELSE IF a = <<>> THEN TRUE
    ELSE IF Ord(Head(a)) # Ord(Head(b)) THEN Ord(Head(a)) < Ord(Head(b))
    ELSE StrLess(Tail(a), Tail(b))

\* Sorted with the order reversed
RECURSIVE SortedDescending(_)
SortedDescending(S) ==
    IF S = {} THEN <<>>
    ELSE LET hi == CHOOSE x \in S : \A y \in S \ {x} : StrLess(y, x)
         IN  <<hi>> \o SortedDescending(S \ {hi})
\* sorted(S) of a collection S without repeated elements
RECURSIVE Sorted(_)
Sorted(S) ==
    IF S = {} THEN <<>>
    ELSE LET lo == CHOOSE x \in S : \A y \in S \ {x} : StrLess(x, y)
         IN  <<lo>> \o Sorted(S \ {lo})

\* the elements of a sequence
Range(q) == {q[i] : i \in 1..Len(q)}

\* the concatenation of a sequence of sequences
RECURSIVE Flatten(_)
Flatten(qq) == IF qq = <<>> THEN <<>> ELSE Head(qq) \o Flatten(Tail(qq))


----------------------------------------------------------------------------
(* The strings of the script.                                              *)

None == <<"None">>     \* Python's None: no str, which holds single characters

LdName == <<"l", "d">>                                   \* "ld"
SharedFlag == <<"-", "-", "s", "h", "a", "r", "e", "d">> \* "--shared"
DotOs == <<".", "o", "s">>                               \* '.os'
Multiple == <<"m", "u", "l", "t", "i", "p", "l", "e">>   \* "multiple"
Main == <<"m", "a", "i", "n">>                           \* "main"
Space == " "
Newline == "\n"

\* one printed line: the format string of the print statement and its argument
Line(format, arg) == [format |-> format, arg |-> arg]

Progress == Line("Checking for multiply defined symbols...", <<>>)
Usage(prog) == Line("usage: %s build_dir", prog)
NotADirectory(dir) == Line("error: '%s' is not a valid directory", dir)
Header == Line("error: found the following multiply defined symbols", <<>>)
Symbol(multi_def) == Line("%s", multi_def)
Success == Line("No multiply defined symbols found.", <<>>)

----------------------------------------------------------------------------
(* The environment of a run: command line, file tree, linker.              *)

ProgName == <<"m">>              \* sys.argv[0]
BuildDir == <<"d">>              \* the one directory the arguments can name
BuildDirSlash == <<"d", "/">>    \* the same directory, written "d/"
NoDir == <<"x">>                 \* a path that names no directory

ArgValues == {BuildDir, BuildDirSlash, NoDir}

\* the command lines with at most MaxArgs arguments
Argvs ==
    UNION {{<<ProgName>> \o a : a \in [1..n -> ArgValues]} : n \in 0..MaxArgs}

\* the file names of the model: "a.os", "b.os", "a.o", "aos"
FileNames ==
    {<<"a", ".", "o", "s">>, <<"b", ".", "o", "s">>, <<"a", ".", "o">>,
     <<"a", "o", "s">>}

\* fs[i] is an entry of the tree: its name, whether it is a regular file or a
\* directory, and the entry that holds it (0: the build directory itself).
\* os.listdir returns the entries of a directory in the order of their index.
WellFormed(t) ==
    \A i \in 1..Len(t) :
        /\ t[i].parent < i
        /\ t[i].parent # 0 => t[t[i].parent].kind = "dir"
        /\ \A j \in 1..(i - 1) :
               t[j].parent = t[i].parent => t[j].name # t[i].name

FileSystems ==
    UNION {{t \in [1..n -> [name : FileNames, kind : {"file", "dir"},
                            parent : 0..(MaxNodes - 1)]] : WellFormed(t)}
           : n \in 0..MaxNodes}

\* the build directory holding a.os, and a directory a.o that holds b.os
SmallTree ==
    <<[name |-> <<"a", ".", "o", "s">>, kind |-> "file", parent |-> 0],
      [name |-> <<"a", ".", "o">>, kind |-> "dir", parent |-> 0],
      [name |-> <<"b", ".", "o", "s">>, kind |-> "file", parent |-> 2]>>

\* the linker's standard error is a concatenation of these pieces
Pieces == {Multiple, Main, <<" ">>, <<"\t">>, <<"\n">>, <<VerticalTab>>, <<"a">>}

RECURSIVE TextsOf(_)
TextsOf(n) ==
    IF n = 0 THEN {<<>>}
    ELSE LET shorter == TextsOf(n - 1)
         IN  shorter \cup {t \o p : t \in shorter, p \in Pieces}

\* "ld: no input files"
NoInputFiles ==
    <<"l", "d", ":", " ", "n", "o", " ", "i", "n", "p", "u", "t", " ",
      "f", "i", "l", "e", "s">>
\* "a: multiple a" followed by a newline
OneDuplicate == <<"a", ":", " ">> \o Multiple \o <<" ", "a", "\n">>

\* what the linker writes on its standard output
StdoutTexts == {<<>>, Multiple \o <<" ", "a">>}

\* the runs of the linker: it cannot be started (Popen raises OSError), or it
\* runs and ends with a status, a standard output and a standard error
LinkerRuns(rcs, outs, errs) ==
    {[launched |-> FALSE, rc |-> 1, out |-> <<>>, err |-> <<>>]}
        \cup [launched : {TRUE}, rc : rcs, out : outs, err : errs]

----------------------------------------------------------------------------
(* The functions of the script.                                            *)

\* path.isdir(p): the build directory is the one directory a path can name
IsDir(p) == p \in {BuildDir, BuildDirSlash}

\* path.join(a, b)
Join(a, b) ==
    IF b # <<>> /\ Head(b) = "/" THEN b
    ELSE IF a = <<>> \/ a[Len(a)] = "/" THEN a \o b
    ELSE a \o <<"/">> \o b

\* the entries of kind k that entry n (0: the build directory) holds, in the
\* order of os.listdir
Children(n, k) ==
    LET Held(i) == fs[i].parent = n /\ fs[i].kind = k
    IN  SelectSeq([i \in 1..Len(fs) |-> i], Held)

\* os.walk from the directory n, whose path is top: the triples (folder, subs,
\* files), a directory before the directories it holds
RECURSIVE WalkFrom(_, _)
WalkFrom(n, top) ==
    LET dirs == Children(n, "dir")
        nondirs == Children(n, "file")
        NamesOf(q) == [i \in 1..Len(q) |-> fs[q[i]].name]
    IN  <<[folder |-> top, subs |-> NamesOf(dirs), files |-> NamesOf(nondirs)]>>
            \o Flatten([i \in 1..Len(dirs) |->
                          WalkFrom(dirs[i], Join(top, fs[dirs[i]].name))])

\* walk(top): nothing when top cannot be listed (os.walk ignores the error)
walk(top) == IF IsDir(top) THEN WalkFrom(0, top) ELSE <<>>

\* IsObjectFile without the dot of the suffix
IsObjectFileLoose(f) == EndsWith(f, <<"o", "s">>)
\* the test of line 40
IsObjectFile(f) == EndsWith(f, DotOs)

\* build_files after the loops of lines 37-41
ScanTree(dir) ==
    LET walked == walk(dir)
        Found(w) ==
            LET keep == SelectSeq(w.files, IsObjectFile)
            IN  [j \in 1..Len(keep) |-> Join(w.folder, keep[j])]
    IN  Flatten([k \in 1..Len(walked) |-> Found(walked[k])])

\* parse_command_line rejecting too few arguments only
parse_command_line_TooFew(av) ==
    IF Len(av) < 2
    THEN [printed |-> <<Usage(av[1])>>, ret |-> None]
    ELSE IF ~IsDir(av[2])
    THEN [printed |-> <<NotADirectory(av[2])>>, ret |-> av[2]]
    ELSE [printed |-> <<>>, ret |-> av[2]]
\* parse_command_line(): what it prints and what it returns
parse_command_line(av) ==
    IF Len(av) # 2
    THEN [printed |-> <<Usage(av[1])>>, ret |-> None]
    ELSE IF ~IsDir(av[2])
    THEN [printed |-> <<NotADirectory(av[2])>>, ret |-> av[2]]
    ELSE [printed |-> <<>>, ret |-> av[2]]

\* get_err(popenargs): the standard error of the process; its standard output
\* and its exit status are dropped
get_err(popenargs) == ld.err

\* IsRetained keeping every line
IsRetainedAlways(line) == TRUE
\* the test of the comprehension of line 46
IsRetained(line) == Contains(line, Multiple)

\* multiples of line 46, from the stripped output
Multiples(out) ==
    LET kept == SelectSeq(Split(out, Newline), IsRetained)
    IN  [i \in 1..Len(kept) |-> Partition(kept[i], Space)[3]]

\* Uniq dropping the token "main" alone
UniqExactMain(mult) == {line \in Range(mult) : line # Main}
\* uniq of line 47
Uniq(mult) == {line \in Range(mult) : ~Contains(line, Main)}

\* Report failing as well when the linker ended with a non-zero status
ReportWithLinkerStatus(u) ==
    IF Cardinality(u) # 0 \/ ld.rc # 0
    THEN LET sorted == Sorted(u)
         IN  [printed |-> <<Header>> \o [i \in 1..Len(sorted) |-> Symbol(sorted[i])],
              status |-> 1]
    ELSE [printed |-> <<Success>>, status |-> 0]
\* lines 49-56: what is printed and the status of sys.exit
Report(u) ==
    IF Cardinality(u) # 0
    THEN LET sorted == Sorted(u)
         IN  [printed |-> <<Header>> \o [i \in 1..Len(sorted) |-> Symbol(sorted[i])],
              status |-> 1]
    ELSE [printed |-> <<Success>>, status |-> 0]

----------------------------------------------------------------------------
(* The run of main().                                                      *)

Steps == <<"start", "validate", "scan", "link", "parse", "report", "exit">>

InitRun ==
    /\ pc = "start"
    /\ build_dir = None
    /\ build_files = <<>>
    /\ invocations = <<>>
    /\ output = <<>>
    /\ multiples = <<>>
    /\ uniq = {}
    /\ stdout = <<>>
    /\ exit_status = <<>>

\* Any command line, with a small tree; or a valid command line with any tree.
Init ==
    /\ InitRun
    /\ ld \in LinkerRuns({0, 1}, StdoutTexts, {NoInputFiles, OneDuplicate})
    /\ \/ argv \in Argvs /\ fs \in {<<>>, SmallTree}
       \/ argv \in {<<ProgName, BuildDir>>, <<ProgName, BuildDirSlash>>}
              /\ fs \in FileSystems

\* Any standard error of the linker, which fails and writes nothing on its
\* standard output, with a small tree.
InitParse ==
    /\ InitRun
    /\ fs = SmallTree
    /\ \/ argv = <<ProgName, BuildDir>>
              /\ ld \in LinkerRuns({1}, {<<>>}, TextsOf(MaxPieces))
       \/ argv \in {<<ProgName>>, <<ProgName, NoDir>>}
              /\ ld \in LinkerRuns({1}, {<<>>}, {NoInputFiles})

\* Any exit status and standard output of the linker, with the shorter
\* standard errors and a small tree.
InitLinker ==
    /\ InitRun
    /\ fs = SmallTree
    /\ \/ argv = <<ProgName, BuildDir>>
              /\ ld \in LinkerRuns({0, 1}, StdoutTexts, TextsOf(MaxStatusPieces))
       \/ argv \in {<<ProgName>>, <<ProgName, NoDir>>}
              /\ ld \in LinkerRuns({0, 1}, StdoutTexts, {NoInputFiles})

\* line 32
Start ==
    /\ pc = "start"
    /\ stdout' = Append(stdout, Progress)
    /\ pc' = "validate"
    /\ UNCHANGED <<argv, fs, ld, build_dir, build_files, invocations, output,
                   multiples, uniq, exit_status>>

\* lines 33-35
ValidateArgs ==
    /\ pc = "validate"
    /\ LET parsed == parse_command_line(argv)
       IN  /\ stdout' = stdout \o parsed.printed
           /\ build_dir' = parsed.ret
           /\ IF parsed.ret = None
              THEN pc' = "exit" /\ exit_status' = <<1>>
              ELSE pc' = "scan" /\ UNCHANGED exit_status
    /\ UNCHANGED <<argv, fs, ld, build_files, invocations, output, multiples, uniq>>

\* lines 37-41
ScanFiles ==
    /\ pc = "scan"
    /\ build_files' = ScanTree(build_dir)
    /\ pc' = "link"
    /\ UNCHANGED <<argv, fs, ld, build_dir, invocations, output, multiples, uniq,
                   stdout, exit_status>>

\* InvokeLinker running the linker a second time
InvokeLinkerRetrying ==
    /\ pc = "link"
    /\ ld.launched
    /\ LET command == <<LdName, SharedFlag>> \o build_files
       IN  /\ invocations' = Append(invocations, command)
           /\ output' = Strip(get_err(command))
    /\ pc' = IF invocations = <<>> THEN "link" ELSE "parse"
    /\ UNCHANGED <<argv, fs, ld, build_dir, build_files, multiples, uniq, stdout,
                   exit_status>>
\* lines 43-45, the linker runs
InvokeLinker ==
    /\ pc = "link"
    /\ ld.launched
    /\ LET command == <<LdName, SharedFlag>> \o build_files
       IN  /\ invocations' = Append(invocations, command)
           /\ output' = Strip(get_err(command))
    /\ pc' = "parse"
    /\ UNCHANGED <<argv, fs, ld, build_dir, build_files, multiples, uniq, stdout,
                   exit_status>>

\* lines 43-45, Popen raises OSError: nothing catches it, the interpreter
\* prints the traceback on its standard error and exits with status 1
LinkerNotStarted ==
    /\ pc = "link"
    /\ ~ld.launched
    /\ LET command == <<LdName, SharedFlag>> \o build_files
       IN  invocations' = Append(invocations, command)
    /\ pc' = "exit"
    /\ exit_status' = <<1>>
    /\ UNCHANGED <<argv, fs, ld, build_dir, build_files, output, multiples, uniq,
                   stdout>>

\* lines 46-47
ParseOutput ==
    /\ pc = "parse"
    /\ multiples' = Multiples(output)
    /\ uniq' = Uniq(Multiples(output))
    /\ pc' = "report"
    /\ UNCHANGED <<argv, fs, ld, build_dir, build_files, invocations, output,
                   stdout, exit_status>>

\* lines 49-56
ReportAndExit ==
    /\ pc = "report"
    /\ LET report == Report(uniq)
       IN  /\ stdout' = stdout \o report.printed
           /\ exit_status' = <<report.status>>
    /\ pc' = "exit"
    /\ UNCHANGED <<argv, fs, ld, build_dir, build_files, invocations, output,
                   multiples, uniq>>

Next ==
    \/ Start
    \/ ValidateArgs
    \/ ScanFiles
    \/ InvokeLinker
    \/ LinkerNotStarted
    \/ ParseOutput
    \/ ReportAndExit

Spec == Init /\ [][Next]_vars

SpecParse == InitParse /\ [][Next]_vars

SpecLinker == InitLinker /\ [][Next]_vars

----------------------------------------------------------------------------
(* Properties of the command line and of the order of the steps.           *)

\* the argument count is right and the argument names a directory
ValidArgs == Len(argv) = 2 /\ IsDir(argv[2])

\* the arguments of the symbol lines printed so far, in the order printed
PrintedSymbols ==
    LET IsSymbol(l) == l.format = "%s"
        lines == SelectSeq(stdout, IsSymbol)
    IN  [i \in 1..Len(lines) |-> lines[i].arg]

\* a report (the header or the success message) has been printed
ReportPrinted == \E i \in 1..Len(stdout) : stdout[i] \in {Header, Success}

\* the position of a step in Steps
StepIndex(p) == CHOOSE i \in 1..Len(Steps) : Steps[i] = p

\* C1: when the single argument names no directory, the run prints the error
\* message and exits with status 1 without scanning and without running the
\* linker.
C1_InvalidDirectoryFails ==
    (Len(argv) = 2 /\ ~IsDir(argv[2])) =>
        /\ pc \in {"start", "validate", "exit"}
        /\ build_files = <<>>
        /\ invocations = <<>>
        /\ pc = "exit" =>
               /\ exit_status = <<1>>
               /\ stdout = <<Progress, NotADirectory(argv[2])>>

\* C2: with no argument or with more than one, the run prints the usage
\* message and exits with status 1, whatever the arguments are, and it never
\* scans nor runs the linker.
C2_WrongArgCountIsUsageError ==
    Len(argv) # 2 =>
        /\ pc \in {"start", "validate", "exit"}
        /\ build_files = <<>>
        /\ invocations = <<>>
        /\ pc = "exit" =>
               /\ exit_status = <<1>>
               /\ stdout = <<Progress, Usage(argv[1])>>

\* C2 witness: a run with two arguments, the first a valid directory, has
\* ended with the usage message.
C2_Witness ==
    /\ Len(argv) = 3
    /\ IsDir(argv[2])
    /\ pc = "exit"
    /\ exit_status = <<1>>
    /\ stdout = <<Progress, Usage(ProgName)>>

\* C9: every step of a run moves forward in the order start, validate, scan,
\* link, parse, report, exit, to the next step or to the exit; the linker is
\* run at most once, only from the link step and before any report is
\* printed; the process has an exit status, 0 or 1, exactly when it is at exit.
C9_LinearRun ==
    [][ /\ StepIndex(pc') > StepIndex(pc)
        /\ pc' # "exit" => StepIndex(pc') = StepIndex(pc) + 1
        /\ Len(invocations') <= 1
        /\ invocations' # invocations =>
               /\ pc = "link"
               /\ StepIndex(pc) > StepIndex("validate")
               /\ ~ReportPrinted
        /\ ReportPrinted' => invocations' # <<>> /\ pc' = "exit"
        /\ pc' = "exit" => exit_status' \in {<<0>>, <<1>>}
        /\ pc' # "exit" => exit_status' = <<>> ]_vars

\* C9 witness: a run has gone through every step, ran the linker once and
\* exited with status 0.
C9_Witness ==
    /\ ValidArgs
    /\ pc = "exit"
    /\ exit_status = <<0>>
    /\ Len(invocations) = 1
    /\ ReportPrinted

----------------------------------------------------------------------------
(* Properties of the scan.                                                 *)

\* the path os.walk builds for entry i of the tree, from the argument top
RECURSIVE PathTo(_, _)
PathTo(i, top) ==
    IF i = 0
    THEN IF top[Len(top)] = "/" THEN SubSeq(top, 1, Len(top) - 1) ELSE top
    ELSE PathTo(fs[i].parent, top) \o <<"/">> \o fs[i].name

\* the name ends in ".os"
HasOsSuffix(name) ==
    /\ Len(name) >= 3
    /\ name[Len(name) - 2] = "."
    /\ name[Len(name) - 1] = "o"
    /\ name[Len(name)] = "s"

\* the regular files of the tree whose name ends in ".os"
ObjectEntries == {i \in 1..Len(fs) : fs[i].kind = "file" /\ HasOsSuffix(fs[i].name)}

\* C8: once the linker step is over in a run with valid arguments, the linker
\* has been invoked once, as "ld --shared" followed by the paths of the files
\* of the tree whose name ends in ".os", each once and no other path; with no
\* such file the command is "ld --shared" alone, and the run reports success
\* when the linker ran and its standard error holds no "multiple".
C8_LinkerGetsTheObjectFiles ==
    (ValidArgs /\ pc \in {"parse", "report", "exit"}) =>
        /\ Len(invocations) = 1
        /\ LET command == invocations[1]
               paths == SubSeq(command, 3, Len(command))
           IN  /\ Len(command) >= 2
               /\ command[1] = LdName
               /\ command[2] = SharedFlag
               /\ Range(paths) = {PathTo(i, argv[2]) : i \in ObjectEntries}
               /\ Len(paths) = Cardinality(ObjectEntries)
        /\ (ObjectEntries = {} /\ pc = "exit" /\ ld.launched
                /\ ~Contains(ld.err, Multiple)) =>
               /\ invocations = << <<LdName, SharedFlag>> >>
               /\ exit_status = <<0>>
               /\ stdout = <<Progress, Success>>

\* C8 witness: the linker has been run on a tree that holds an object file in
\* a directory below the build directory and a file that is no object file.
C8_Witness ==
    /\ ValidArgs
    /\ ld.launched
    /\ pc = "exit"
    /\ \E i \in ObjectEntries : fs[i].parent # 0
    /\ \E j \in 1..Len(fs) : fs[j].kind = "file" /\ j \notin ObjectEntries
    /\ Len(invocations[1]) >= 3

----------------------------------------------------------------------------
(* Properties of the parsing of the linker's standard error and of the     *)
(* report.                                                                 *)

\* the run got to the report step and has exited from it
Reported == pc = "exit" /\ Len(argv) = 2 /\ ld.launched

\* what follows the first character of line that is in seps; the empty str
\* when line holds none
RestAfterFirst(line, seps) ==
    LET at == {i \in 1..Len(line) : line[i] \in seps}
    IN  IF at = {} THEN <<>>
        ELSE SubSeq(line, (CHOOSE i \in at : \A j \in at : i <= j) + 1, Len(line))

\* the lines of the stripped standard error that contain "multiple"
RetainedLines ==
    LET HasMultiple(line) == Contains(line, Multiple)
    IN  SelectSeq(Split(Strip(ld.err), "\n"), HasMultiple)

\* the symbols left by the rules of the parser, from the standard error alone
FinalSymbols ==
    LET tokens == {RestAfterFirst(RetainedLines[i], {" "}) : i \in 1..Len(RetainedLines)}
    IN  {t \in tokens : ~Contains(t, Main)}

\* C3: the step out of the report prints the header and each symbol of uniq
\* once and exits with status 1 when uniq is not empty, prints the success
\* message and exits with status 0 when it is empty, and uniq is what the
\* standard error of the linker gives, whatever the linker's exit status and
\* standard output are.
C3_ExitStatusFollowsSymbolSet ==
    [][ pc = "report" =>
          /\ pc' = "exit"
          /\ uniq' = uniq
          /\ uniq = FinalSymbols
          /\ exit_status' = <<1>> <=> uniq # {}
          /\ exit_status' = <<0>> <=> uniq = {}
          /\ uniq # {} =>
                 /\ Len(stdout') = Len(stdout) + 1 + Cardinality(uniq)
                 /\ SubSeq(stdout', 1, Len(stdout) + 1) = Append(stdout, Header)
                 /\ {stdout'[i] : i \in (Len(stdout) + 2)..Len(stdout')}
                        = {Symbol(t) : t \in uniq}
          /\ uniq = {} => stdout' = Append(stdout, Success) ]_vars

\* C3 witness: the run has reported success although the linker ended with a
\* non-zero status and wrote "multiple" on its standard output.
C3_Witness ==
    /\ Reported
    /\ exit_status = <<0>>
    /\ ld.rc = 1
    /\ Contains(ld.out, Multiple)
    /\ stdout[Len(stdout)] = Success

\* C4: no printed symbol contains "main"; and when every token taken from a
\* "multiple" line contains "main", the run reports success and exits with
\* status 0.
C4_NoTokenWithMainIsReported ==
    /\ \A i \in 1..Len(PrintedSymbols) : ~Contains(PrintedSymbols[i], Main)
    /\ (Reported /\ \A i \in 1..Len(multiples) : Contains(multiples[i], Main)) =>
           /\ exit_status = <<0>>
           /\ PrintedSymbols = <<>>
           /\ stdout[Len(stdout)] = Success

\* C4 witness: a "multiple" line gave a token that contains "main" without
\* being "main", and the run has reported success.
C4_Witness ==
    /\ Reported
    /\ exit_status = <<0>>
    /\ \E i \in 1..Len(multiples) :
           Contains(multiples[i], Main) /\ multiples[i] # Main

\* C5 as stated: after the parse step, the tokens are what follows the first
\* whitespace character of each retained line.
C5_TokenAfterFirstWhitespace ==
    pc = "report" =>
        multiples = [i \in 1..Len(RetainedLines) |->
                       RestAfterFirst(RetainedLines[i], Whitespace)]

\* "ld: multiple definition of foo"
ExampleLine ==
    <<"l", "d", ":", " ">> \o Multiple
        \o <<" ", "d", "e", "f", "i", "n", "i", "t", "i", "o", "n", " ", "o", "f",
             " ", "f", "o", "o">>

\* C5 as amended: after the parse step, the tokens are what follows the first
\* space character of each line of the stripped standard error that contains
\* "multiple", the empty str for a line without a space; the line
\* "ld: multiple definition of foo" yields "multiple definition of foo".
C5_TokenAfterFirstSpace ==
    /\ pc = "report" =>
           /\ output = Strip(ld.err)
           /\ multiples = [i \in 1..Len(RetainedLines) |->
                             RestAfterFirst(RetainedLines[i], {" "})]
    /\ Multiples(ExampleLine) = <<SubSeq(ExampleLine, 5, Len(ExampleLine))>>

\* C5 witness: a retained line holds a tab before its first space, and its
\* token starts after the space.
C5_Witness ==
    /\ pc = "report"
    /\ \E i \in 1..Len(RetainedLines) :
           /\ RestAfterFirst(RetainedLines[i], {" "})
                  # RestAfterFirst(RetainedLines[i], Whitespace)
           /\ multiples[i] = RestAfterFirst(RetainedLines[i], {" "})
           /\ multiples[i] # <<>>

\* C6: the symbols are printed in strictly ascending order, so each once, and
\* at the exit from a failed report they are the distinct tokens without
\* "main".
C6_ReportIsStrictlyAscending ==
    /\ \A i, j \in 1..Len(PrintedSymbols) :
           i < j => StrLess(PrintedSymbols[i], PrintedSymbols[j])
    /\ (Reported /\ exit_status = <<1>>) =>
           Range(PrintedSymbols) = {t \in Range(multiples) : ~Contains(t, Main)}

\* C6 witness: two symbols have been printed, found by the parser in the
\* opposite order.
C6_Witness ==
    /\ Reported
    /\ Len(PrintedSymbols) >= 2
    /\ \E i, j \in 1..Len(multiples) :
           i < j /\ StrLess(multiples[j], multiples[i])

\* C7: when the standard error does not contain "multiple", the symbol set is
\* empty and the run ends with the success message and status 0; and every
\* printed symbol is the end of a line of the output that contains "multiple".
C7_NoMultipleNoReport ==
    /\ (pc \in {"report", "exit"} /\ Len(argv) = 2 /\ ld.launched
            /\ ~Contains(ld.err, Multiple)) =>
           /\ multiples = <<>>
           /\ uniq = {}
           /\ pc = "exit" =>
                  /\ exit_status = <<0>>
                  /\ stdout[Len(stdout)] = Success
                  /\ PrintedSymbols = <<>>
    /\ \A i \in 1..Len(PrintedSymbols) :
           \E line \in Range(Split(output, "\n")) :
               /\ Contains(line, Multiple)
               /\ EndsWith(line, PrintedSymbols[i])

\* C7 witness: the standard error holds several lines, spaces and "main" but
\* no "multiple", and the run has reported success.
C7_Witness ==
    /\ Reported
    /\ ~Contains(ld.err, Multiple)
    /\ Contains(ld.err, Main)
    /\ Contains(ld.err, <<" ">>)
    /\ Len(Split(output, "\n")) >= 2
    /\ exit_status = <<0>>

\* C10: when a line of the standard error contains "multiple" and no space,
\* the empty str is a token and stays in the symbol set, and the run prints the
\* header, then the empty name, and exits with status 1.
C10_LineWithoutSpaceGivesEmptyName ==
    (Len(argv) = 2 /\ ld.launched
        /\ \E line \in Range(Split(ld.err, "\n")) :
               Contains(line, Multiple) /\ ~Contains(line, <<" ">>)) =>
        /\ pc \in {"report", "exit"} => <<>> \in Range(multiples) /\ <<>> \in uniq
        /\ pc = "exit" =>
               /\ exit_status = <<1>>
               /\ Len(stdout) >= 3
               /\ stdout[Len(stdout) - Cardinality(uniq)] = Header
               /\ stdout[Len(stdout) - Cardinality(uniq) + 1] = Symbol(<<>>)

\* C10 witness: the standard error is a line with "multiple" and no space;
\* the run printed the header and one empty name and exited with status 1.
C10_Witness ==
    /\ Reported
    /\ \E line \in Range(Split(ld.err, "\n")) :
           Contains(line, Multiple) /\ ~Contains(line, <<" ">>)
    /\ stdout = <<Progress, Header, Symbol(<<>>)>>
    /\ exit_status = <<1>>

============================================================================
